---- MODULE Spec2Model ----
(***************************************************************************)
(* One run of the pbc-config command line tool                             *)
(* (scripts/pbc-config/src/main.rs): the command line is parsed, the       *)
(* configuration file is loaded into a BridgeConfigurator, and main        *)
(* dispatches on the subcommand.  A state is a point of that run between   *)
(* two awaits.                                                             *)
(***************************************************************************)
EXTENDS Naturals, Sequences, FiniteSets

VARIABLES
    config,               \* BridgeConfigurator.config (Config)
    client,               \* BridgeConfigurator.client (Option<OnlineClient>)
    cli,                  \* the parsed command line (Cli)
    pc,                   \* position of main in the run
    endpoint,             \* main's local `endpoint` (Option: unset before it is bound)
    chain_list,           \* main's local `chain_list` (Option<Vec<String>>)
    chains_to_configure,  \* configure_all's local vector
    idx,                  \* position of configure_all's for loop (1-based)
    started,              \* chains announced by the parallel branch's loop
    connects,             \* endpoints handed to OnlineClient::from_url, in order
    ops,                  \* operation calls that ran, in order, with their results
    exit,                 \* what main returned: "none" while running, "ok", or the error
    remote                \* the bridge state held by the remote nodes

vars == <<config, client, cli, pc, endpoint, chain_list, chains_to_configure,
          idx, started, connects, ops, exit, remote>>

(***************************************************************************)
(* Bounds and the small input sets the runs are drawn from.                *)
(***************************************************************************)
\* Longest --chains list (number of comma-separated segments).
MaxFilter == 3

\* Option<T>: None is the empty sequence, Some(x) the one-element sequence.
None == <<>>

Some(x) == <<x>>

\* Chain names a configuration file may declare.
DeclarableChains == {"solana", "ethereum"}

\* Chain names given on the command line.
CliChains == {"solana", "ethereum", "Solana", "foo"}

\* Segments of a --chains argument, as split(',') yields them (untrimmed).
RawSegments == {"solana", " ethereum ", "foo"}

\* exchange_rate strings of a configuration file.
Rates == {"1.5", "-1", "abc"}

\* --endpoint values.
EndpointOverrides == {None, Some(""), Some("ws://override")}

QueryTypes == {"token-mapping", "relayers", "parameters", "all", "bogus"}

Parameters == {"max-amount", "fee", "bogus"}

Values == {"50", "150", "abc"}

\* States of one chain's bridge mapping on the remote node.
RemoteStates == {"unset", "stale"}

\* str::trim on the segments above.
Trim(s) == IF s = " ethereum " THEN "ethereum" ELSE s

\* ChainConfig of a declared chain; the endpoint is the chain's own.
ChainConfig(name, rate) ==
    [pbc_name |-> name, pbc_endpoint |-> "ws://pbc-" \o name, exchange_rate |-> rate]

\* The Config values a configuration file may deserialize to.
Configs ==
    { [chains |-> [c \in keys |-> ChainConfig(c, rates[c])],
       flarechain |-> [endpoint |-> "ws://flarechain"]] :
        keys \in SUBSET DeclarableChains, rates \in [DeclarableChains -> Rates] }

\* All sequences over S of length 1..n.
SeqsUpTo(S, n) == UNION { [1..k -> S] : k \in 1..n }

\* The subcommands (Commands), every variant a record of the same shape.
Cmd(kind, chain, sequential, chains, query_type, parameter, value) ==
    [kind |-> kind, chain |-> chain, sequential |-> sequential, chains |-> chains,
     query_type |-> query_type, parameter |-> parameter, value |-> value]

Commands ==
    { Cmd("Configure", c, FALSE, None, "", "", "") : c \in CliChains }
    \cup { Cmd("Verify", c, FALSE, None, "", "", "") : c \in CliChains }
    \cup { Cmd("Query", c, FALSE, None, q, "", "") : c \in CliChains, q \in QueryTypes }
    \cup { Cmd("Update", c, FALSE, None, "", p, v) :
             c \in CliChains, p \in Parameters, v \in Values }
    \cup { Cmd("ConfigureAll", "", s, f, "", "", "") :
             s \in BOOLEAN,
             f \in {None} \cup { Some(l) : l \in SeqsUpTo(RawSegments, MaxFilter) } }

SingleChainKinds == {"Configure", "Verify", "Query", "Update"}

(***************************************************************************)
(* Helpers of the program.                                                 *)
(***************************************************************************)
\* ASCII lower-casing of the command-line chain names.
Lower(s) == IF s = "Solana" THEN "solana" ELSE s

\* A lookup that folds case before matching the key.
ChainsGetIgnoreCase(chain) ==
    IF Lower(chain) \in DOMAIN config.chains
    THEN Some(config.chains[Lower(chain)])
    ELSE None

\* self.config.chains.get(chain): Some(ChainConfig) or None, exact key match.
ChainsGet(chain) ==
    IF chain \in DOMAIN config.chains THEN Some(config.chains[chain]) ELSE None

\* cli.endpoint.as_ref().unwrap_or(default)
UnwrapOr(opt, default) == IF opt = None THEN default ELSE opt[1]

\* configure_bridge's result for a chain: the lookup is its only fallible step.
configure_bridge(chain) ==
    IF ChainsGet(chain) = None THEN "ChainNotFound" ELSE "ok"

\* A configure_bridge whose remote write flips the chain's mapping state
\* (a write that depends on the state it finds, not a plain set).
RemoteAfterConfigureToggle(chain) ==
    IF chain \in DOMAIN config.chains
    THEN [remote EXCEPT ![chain] = IF @ = "unset" THEN "stale" ELSE "unset"]
    ELSE remote

\* The remote state after configure_bridge(chain): the set_token_mapping
\* extrinsic exists only as a comment (dry run), so nothing is submitted.
RemoteAfterConfigure(chain) == remote

\* The orders in which HashMap::keys may yield the declared chains.
KeyOrders ==
    { s \in [1..Cardinality(DOMAIN config.chains) -> DOMAIN config.chains] :
        \A i, j \in DOMAIN s : i # j => s[i] # s[j] }

Op(name, chain, result) == [op |-> name, chain |-> chain, result |-> result]

(***************************************************************************)
(* The state after Cli::parse and BridgeConfigurator::new.                 *)
(***************************************************************************)
Init ==
    /\ config \in Configs
    /\ client = None
    /\ cli \in [endpoint : EndpointOverrides, command : Commands]
    /\ pc = "parsed"
    /\ endpoint = None
    /\ chain_list = None
    /\ chains_to_configure = <<>>
    /\ idx = 1
    /\ started = <<>>
    /\ connects = <<>>
    /\ ops = <<>>
    /\ exit = "none"
    /\ remote \in [DeclarableChains -> RemoteStates]

(***************************************************************************)
(* main: the command dispatch.                                             *)
(***************************************************************************)
\* main returns Err(e): the `?` operator leaves main at once.
Fail(e) ==
    /\ pc' = "failed"
    /\ exit' = e

\* Configure / Verify / Query / Update: look the chain up, then bind `endpoint`.
LookupChain ==
    /\ pc = "parsed"
    /\ cli.command.kind \in SingleChainKinds
    /\ LET chain_config == ChainsGet(cli.command.chain)
       IN IF chain_config = None
          THEN /\ Fail("ChainNotFound")
               /\ UNCHANGED endpoint
          ELSE /\ endpoint' = Some(UnwrapOr(cli.endpoint, chain_config[1].pbc_endpoint))
               /\ pc' = "connect"
               /\ UNCHANGED exit
    /\ UNCHANGED <<config, client, cli, chain_list, chains_to_configure, idx,
                   started, connects, ops, remote>>

\* A ConfigureAll arm that falls back, as the single-chain arms do, to the
\* pbc_endpoint of a declared chain instead of FlareChain's endpoint.
ParseChainListChainEndpoint ==
    /\ pc = "parsed"
    /\ cli.command.kind = "ConfigureAll"
    /\ chain_list' =
         IF cli.command.chains = None
         THEN None
         ELSE Some([i \in DOMAIN cli.command.chains[1] |-> Trim(cli.command.chains[1][i])])
    /\ endpoint' =
         IF DOMAIN config.chains = {}
         THEN Some(UnwrapOr(cli.endpoint, config.flarechain.endpoint))
         ELSE Some(UnwrapOr(cli.endpoint,
                            config.chains[CHOOSE c \in DOMAIN config.chains : TRUE].pbc_endpoint))
    /\ pc' = "connect"
    /\ UNCHANGED <<config, client, cli, chains_to_configure, idx, started,
                   connects, ops, exit, remote>>

\* ConfigureAll: split and trim --chains, then bind `endpoint` to FlareChain's.
ParseChainList ==
    /\ pc = "parsed"
    /\ cli.command.kind = "ConfigureAll"
    /\ chain_list' =
         IF cli.command.chains = None
         THEN None
         ELSE Some([i \in DOMAIN cli.command.chains[1] |-> Trim(cli.command.chains[1][i])])
    /\ endpoint' = Some(UnwrapOr(cli.endpoint, config.flarechain.endpoint))
    /\ pc' = "connect"
    /\ UNCHANGED <<config, client, cli, chains_to_configure, idx, started,
                   connects, ops, exit, remote>>

\* A connect whose error is dropped by the caller: main goes on to the operation.
ConnectIgnoresFailure ==
    /\ pc = "connect"
    /\ connects' = Append(connects, endpoint[1])
    /\ \E reachable \in BOOLEAN :
         client' = IF reachable THEN Some(endpoint[1]) ELSE client
    /\ pc' = "operate"
    /\ UNCHANGED <<config, cli, endpoint, chain_list, chains_to_configure, idx,
                   started, ops, exit, remote>>

\* A connect (it holds &mut self) that also records the endpoint it used in
\* the configuration's flarechain section.
ConnectStoresEndpoint ==
    /\ pc = "connect"
    /\ connects' = Append(connects, endpoint[1])
    /\ config' = [config EXCEPT !.flarechain.endpoint = endpoint[1]]
    /\ \E reachable \in BOOLEAN :
         IF reachable
         THEN /\ client' = Some(endpoint[1])
              /\ pc' = "operate"
              /\ UNCHANGED exit
         ELSE /\ Fail("ConnectFailed")
              /\ UNCHANGED client
    /\ UNCHANGED <<cli, endpoint, chain_list, chains_to_configure, idx,
                   started, ops, remote>>

\* BridgeConfigurator::connect: from_url succeeds or fails; only success sets client.
Connect ==
    /\ pc = "connect"
    /\ connects' = Append(connects, endpoint[1])
    /\ \E reachable \in BOOLEAN :
         IF reachable
         THEN /\ client' = Some(endpoint[1])
              /\ pc' = "operate"
              /\ UNCHANGED exit
         ELSE /\ Fail("ConnectFailed")
              /\ UNCHANGED client
    /\ UNCHANGED <<config, cli, endpoint, chain_list, chains_to_configure, idx,
                   started, ops, remote>>

\* Commands::Configure: configurator.configure_bridge(&chain).await?
ConfigureCmd ==
    /\ pc = "operate"
    /\ cli.command.kind = "Configure"
    /\ LET r == configure_bridge(cli.command.chain)
       IN /\ ops' = Append(ops, Op("configure_bridge", cli.command.chain, r))
          /\ IF r = "ok" THEN pc' = "finish" /\ UNCHANGED exit ELSE Fail(r)
    /\ remote' = RemoteAfterConfigure(cli.command.chain)
    /\ UNCHANGED <<config, client, cli, endpoint, chain_list, chains_to_configure,
                   idx, started, connects>>

\* A verify_configuration that resets the chain's remote mapping while checking it.
VerifyCmdResetsRemote ==
    /\ pc = "operate"
    /\ cli.command.kind = "Verify"
    /\ ops' = Append(ops, Op("verify_configuration", cli.command.chain, "ok"))
    /\ pc' = "finish"
    /\ remote' = [remote EXCEPT ![cli.command.chain] = "unset"]
    /\ UNCHANGED <<config, client, cli, endpoint, chain_list, chains_to_configure,
                   idx, started, connects, exit>>

\* Commands::Verify: verify_configuration logs and returns Ok(()).
VerifyCmd ==
    /\ pc = "operate"
    /\ cli.command.kind = "Verify"
    /\ ops' = Append(ops, Op("verify_configuration", cli.command.chain, "ok"))
    /\ pc' = "finish"
    /\ UNCHANGED <<config, client, cli, endpoint, chain_list, chains_to_configure,
                   idx, started, connects, exit, remote>>

\* A query_state whose fallback arm returns an error for an unknown query type.
query_state_strict(query_type) ==
    IF query_type \in {"token-mapping", "relayers", "parameters", "all"}
    THEN [result |-> "ok", data |-> {}]
    ELSE [result |-> "UnknownQueryType", data |-> {}]

\* query_state's return value: each of the four named arms and the fallback arm
\* only logs, then the function returns Ok(()): a unit, holding no sub-result.
query_state(query_type) ==
    IF query_type \in {"token-mapping", "relayers", "parameters", "all"}
    THEN [result |-> "ok", data |-> {}]
    ELSE [result |-> "ok", data |-> {}]

\* Commands::Query: configurator.query_state(&chain, &query_type).await?
QueryCmd ==
    /\ pc = "operate"
    /\ cli.command.kind = "Query"
    /\ LET q == query_state(cli.command.query_type)
       IN /\ ops' = Append(ops, [op |-> "query_state", chain |-> cli.command.chain,
                                 result |-> q.result, data |-> q.data])
          /\ IF q.result = "ok" THEN pc' = "finish" /\ UNCHANGED exit ELSE Fail(q.result)
    /\ UNCHANGED <<config, client, cli, endpoint, chain_list, chains_to_configure,
                   idx, started, connects, remote>>

\* Commands::Update: update_parameter logs and returns Ok(()).
UpdateCmd ==
    /\ pc = "operate"
    /\ cli.command.kind = "Update"
    /\ ops' = Append(ops, Op("update_parameter", cli.command.chain, "ok"))
    /\ pc' = "finish"
    /\ UNCHANGED <<config, client, cli, endpoint, chain_list, chains_to_configure,
                   idx, started, connects, exit, remote>>

(***************************************************************************)
(* BridgeConfigurator::configure_all.                                      *)
(***************************************************************************)
\* Bind chains_to_configure: the given list, or the declared keys in map order.
ConfigureAllBegin ==
    /\ pc = "operate"
    /\ cli.command.kind = "ConfigureAll"
    /\ IF chain_list # None
       THEN chains_to_configure' = chain_list[1]
       ELSE chains_to_configure' \in KeyOrders
    /\ idx' = 1
    /\ pc' = IF cli.command.sequential THEN "seq_loop" ELSE "par_loop"
    /\ UNCHANGED <<config, client, cli, endpoint, chain_list, started, connects,
                   ops, exit, remote>>

\* A sequential iteration that drops the result instead of propagating it with `?`.
ConfigureAllSeqStepContinue ==
    /\ pc = "seq_loop"
    /\ idx <= Len(chains_to_configure)
    /\ LET chain == chains_to_configure[idx]
       IN ops' = Append(ops, Op("configure_bridge", chain, configure_bridge(chain)))
    /\ idx' = idx + 1
    /\ remote' = RemoteAfterConfigure(chains_to_configure[idx])
    /\ UNCHANGED <<config, client, cli, pc, endpoint, chain_list, chains_to_configure,
                   started, connects, exit>>

\* Sequential branch, one iteration: self.configure_bridge(chain).await?
ConfigureAllSeqStep ==
    /\ pc = "seq_loop"
    /\ idx <= Len(chains_to_configure)
    /\ LET chain == chains_to_configure[idx]
           r == configure_bridge(chain)
       IN /\ ops' = Append(ops, Op("configure_bridge", chain, r))
          /\ IF r = "ok"
             THEN /\ idx' = idx + 1
                  /\ UNCHANGED <<pc, exit>>
             ELSE /\ Fail(r)
                  /\ UNCHANGED idx
    /\ remote' = RemoteAfterConfigure(chains_to_configure[idx])
    /\ UNCHANGED <<config, client, cli, endpoint, chain_list, chains_to_configure,
                   started, connects>>

\* Parallel branch, one iteration: only the "Starting parallel configuration" line.
ConfigureAllParStep ==
    /\ pc = "par_loop"
    /\ idx <= Len(chains_to_configure)
    /\ started' = Append(started, chains_to_configure[idx])
    /\ idx' = idx + 1
    /\ UNCHANGED <<config, client, cli, pc, endpoint, chain_list,
                   chains_to_configure, connects, ops, exit, remote>>

\* A configure_all that treats an empty chains_to_configure as an error.
ConfigureAllReturnRejectsEmpty ==
    /\ pc \in {"seq_loop", "par_loop"}
    /\ idx > Len(chains_to_configure)
    /\ IF chains_to_configure = <<>>
       THEN Fail("NoChains")
       ELSE pc' = "finish" /\ UNCHANGED exit
    /\ UNCHANGED <<config, client, cli, endpoint, chain_list, chains_to_configure,
                   idx, started, connects, ops, remote>>

\* Either loop is exhausted: configure_all returns Ok(()).
ConfigureAllReturn ==
    /\ pc \in {"seq_loop", "par_loop"}
    /\ idx > Len(chains_to_configure)
    /\ pc' = "finish"
    /\ UNCHANGED <<config, client, cli, endpoint, chain_list, chains_to_configure,
                   idx, started, connects, ops, exit, remote>>

\* main's tail: "Operation completed successfully", Ok(()).
Finish ==
    /\ pc = "finish"
    /\ pc' = "done"
    /\ exit' = "ok"
    /\ UNCHANGED <<config, client, cli, endpoint, chain_list, chains_to_configure,
                   idx, started, connects, ops, remote>>

Next ==
    \/ LookupChain
    \/ ParseChainList
    \/ Connect
    \/ ConfigureCmd
    \/ VerifyCmd
    \/ QueryCmd
    \/ UpdateCmd
    \/ ConfigureAllBegin
    \/ ConfigureAllSeqStep
    \/ ConfigureAllParStep
    \/ ConfigureAllReturn
    \/ Finish

Spec == Init /\ [][Next]_vars

(***************************************************************************)
(* Vocabulary of the properties.                                           *)
(***************************************************************************)
Terminal == pc \in {"done", "failed"}

Keys == DOMAIN config.chains

IsConfigureAll == cli.command.kind = "ConfigureAll"

IsSingleChain == cli.command.kind \in SingleChainKinds

\* The chain names a --chains argument names, trimmed.
NamedChains ==
    IF cli.command.chains = None
    THEN {}
    ELSE { Trim(cli.command.chains[1][i]) : i \in DOMAIN cli.command.chains[1] }

\* configure_all has returned Ok to main.
ConfigureAllReturned == IsConfigureAll /\ pc \in {"finish", "done"}

\* Positions of ops that are calls for chain c with result r.
OpsFor(c, r) == { i \in DOMAIN ops : ops[i].chain = c /\ ops[i].result = r }

\* Positions of ops for chain c that ended in any failure.
FailuresFor(c) == { i \in DOMAIN ops : ops[i].chain = c /\ ops[i].result # "ok" }

Range(s) == { s[i] : i \in DOMAIN s }

\* A decimal string that parses as a non-negative number.
ParsesNonNegative(s) == s \in {"1.5", "50", "150"}

\* The parameter names update accepts.
KnownParameters == {"max-amount", "min-amount", "fee", "confirmations"}

(***************************************************************************)
(* C1 (fails on the code).  configure-all with an explicit chain filter    *)
(* that names a chain absent from the configuration opens no connection,   *)
(* runs no operation for any named chain, and ends with ChainNotFound.     *)
(***************************************************************************)
C1_FilterValidatedBeforeConnect ==
    (IsConfigureAll /\ \E c \in NamedChains : c \notin Keys) =>
        /\ connects = <<>>
        /\ client = None
        /\ ops = <<>>
        /\ Terminal => exit = "ChainNotFound"

(***************************************************************************)
(* C2 (fails on the code).  Parallel configure-all whose targets hold a    *)
(* failing chain and a succeeding chain: once configure_all has returned,  *)
(* each failing chain has exactly one Failure outcome and each succeeding  *)
(* chain exactly one Success outcome.                                      *)
(***************************************************************************)
C2_ParallelFailuresIsolated ==
    (/\ ConfigureAllReturned
     /\ ~cli.command.sequential
     /\ \E bad, good \in Range(chains_to_configure) : bad \notin Keys /\ good \in Keys) =>
        \A c \in Range(chains_to_configure) :
            IF c \in Keys
            THEN Cardinality(OpsFor(c, "ok")) >= 1 /\ FailuresFor(c) = {}
            ELSE Cardinality(FailuresFor(c)) >= 1 /\ OpsFor(c, "ok") = {}

(***************************************************************************)
(* C3 (fails on the code).  When parallel configure_all returns, every     *)
(* chain whose configuration it announced as started has an outcome.       *)
(***************************************************************************)
C3_ParallelStartedAllTerminal ==
    (ConfigureAllReturned /\ ~cli.command.sequential) =>
        \A i \in DOMAIN started : \E j \in DOMAIN ops : ops[j].chain = started[i]

(***************************************************************************)
(* C4 (fails on the code).  configure-all with no filter that ran to the   *)
(* end executed exactly one configure_bridge per declared chain, in the    *)
(* order of the target list, in sequential and in parallel mode.           *)
(***************************************************************************)
C4_NoFilterOneOpPerChain ==
    (ConfigureAllReturned /\ cli.command.chains = None) =>
        /\ Len(ops) = Cardinality(Keys)
        /\ Len(ops) = Len(chains_to_configure)
        /\ \A i \in DOMAIN ops :
             ops[i].op = "configure_bridge" /\ ops[i].chain = chains_to_configure[i]

(***************************************************************************)
(* C5.  Sequential configure-all runs configure_bridge on the targets in   *)
(* list order, one per loop position; a failed call is the last call that  *)
(* runs and ends the run in failure with that error, so no later chain is  *)
(* operated on; the run completes only with every target operated on.      *)
(***************************************************************************)
C5_SequentialStopsAtFirstFailure ==
    (IsConfigureAll /\ cli.command.sequential) =>
        /\ Len(ops) <= Len(chains_to_configure)
        /\ \A i \in DOMAIN ops :
             /\ ops[i].op = "configure_bridge"
             /\ ops[i].chain = chains_to_configure[i]
             /\ ops[i].result # "ok" =>
                  i = Len(ops) /\ pc = "failed" /\ exit = ops[i].result
        /\ pc = "seq_loop" => Len(ops) = idx - 1
        /\ pc \in {"finish", "done"} => Len(ops) = Len(chains_to_configure)

\* A sequential run that ran two calls, the second failed, with a third chain left.
C5_Witness ==
    /\ IsConfigureAll
    /\ cli.command.sequential
    /\ pc = "failed"
    /\ Len(chains_to_configure) = 3
    /\ Len(ops) = 2
    /\ ops[1].result = "ok"
    /\ ops[2].result = "ChainNotFound"

(***************************************************************************)
(* C6.  A configure, verify, query or update command whose chain is not a  *)
(* key of config.chains (compared exactly, so "Solana" is not "solana")    *)
(* never leaves the lookup except into failure with ChainNotFound: no      *)
(* connection is attempted, the client stays unset, no operation runs.     *)
(***************************************************************************)
C6_UnknownChainFailsBeforeConnect ==
    (IsSingleChain /\ cli.command.chain \notin Keys) =>
        /\ pc \in {"parsed", "failed"}
        /\ pc = "failed" <=> exit = "ChainNotFound"
        /\ pc = "parsed" <=> exit = "none"
        /\ endpoint = None
        /\ connects = <<>>
        /\ client = None
        /\ ops = <<>>

\* The command named "Solana", the configuration declares "solana": not found.
C6_Witness ==
    /\ IsSingleChain
    /\ cli.command.chain = "Solana"
    /\ "solana" \in Keys
    /\ pc = "failed"
    /\ exit = "ChainNotFound"
    /\ connects = <<>>

(***************************************************************************)
(* C7 (fails on the code).  For a single-chain command on a declared       *)
(* chain, the resolved endpoint is the override when it is present and     *)
(* non-empty and the chain's pbc_endpoint otherwise, and every connection  *)
(* attempt is made against that endpoint.                                  *)
(***************************************************************************)
C7_EndpointResolution ==
    (IsSingleChain /\ cli.command.chain \in Keys) =>
        LET declared == config.chains[cli.command.chain].pbc_endpoint
            resolved == IF cli.endpoint # None /\ cli.endpoint[1] # ""
                        THEN cli.endpoint[1]
                        ELSE declared
        IN /\ endpoint # None => endpoint[1] = resolved
           /\ \A i \in DOMAIN connects : connects[i] = resolved

(***************************************************************************)
(* C8 (fails on the code).  update <chain> fee 150 on a declared chain     *)
(* attempts no connection at any point of the run and ends with            *)
(* InvalidValue.                                                           *)
(***************************************************************************)
C8_FeeOutOfRangeNoNetwork ==
    (/\ cli.command.kind = "Update"
     /\ cli.command.chain \in Keys
     /\ cli.command.parameter = "fee"
     /\ cli.command.value = "150") =>
        /\ connects = <<>>
        /\ client = None
        /\ Terminal => exit = "InvalidValue"

(***************************************************************************)
(* C9 (fails on the code).  An update on a declared chain, once connected: *)
(* with an unrecognized parameter name update_parameter does not succeed   *)
(* and the run ends with InvalidParameter; with a recognized name and a    *)
(* value that does not parse it does not succeed and the run ends with     *)
(* InvalidValue.                                                           *)
(***************************************************************************)
C9_UpdateValidatedLocally ==
    (/\ cli.command.kind = "Update"
     /\ cli.command.chain \in Keys
     /\ client # None) =>
        LET p == cli.command.parameter
            v == cli.command.value
            expected == IF p \notin KnownParameters THEN "InvalidParameter"
                        ELSE IF ~ParsesNonNegative(v) THEN "InvalidValue"
                        ELSE "ok"
        IN expected # "ok" =>
             /\ \A i \in DOMAIN ops : ops[i].result # "ok"
             /\ pc # "finish"
             /\ Terminal => exit = expected

(***************************************************************************)
(* C10 (fails on the code).  configure on a declared chain whose           *)
(* exchange_rate does not parse as a non-negative number attempts no       *)
(* connection and ends with InvalidExchangeRate; and no configure_bridge   *)
(* call on such a chain, in any command, returns Ok.                       *)
(***************************************************************************)
C10_ExchangeRateCheckedBeforeNetwork ==
    /\ (/\ cli.command.kind = "Configure"
        /\ cli.command.chain \in Keys
        /\ ~ParsesNonNegative(config.chains[cli.command.chain].exchange_rate)) =>
           /\ connects = <<>>
           /\ Terminal => exit = "InvalidExchangeRate"
    /\ \A i \in DOMAIN ops :
         (/\ ops[i].op = "configure_bridge"
          /\ ops[i].chain \in Keys
          /\ ~ParsesNonNegative(config.chains[ops[i].chain].exchange_rate)) =>
            ops[i].result = "InvalidExchangeRate"

\* The chains a command targets: its chain, the named chains, or every declared chain.
TargetedChains ==
    IF IsSingleChain THEN {cli.command.chain}
    ELSE IF cli.command.chains # None THEN NamedChains
    ELSE Keys

\* The operation on chain c ran and ended in success, and none for c failed.
Succeeded(c) == OpsFor(c, "ok") # {} /\ FailuresFor(c) = {}

(***************************************************************************)
(* C11 (fails on the code).  A finished run has exit code 0 exactly when   *)
(* every targeted chain's operation ended in success: exit 0 implies each  *)
(* targeted chain has a successful operation, a failed operation implies   *)
(* a non-zero exit, and success of every targeted chain implies exit 0.    *)
(***************************************************************************)
C11_ExitZeroIffAllSucceeded ==
    Terminal =>
        /\ exit = "ok" => \A c \in TargetedChains : Succeeded(c)
        /\ (\E i \in DOMAIN ops : ops[i].result # "ok") => exit # "ok"
        /\ (TargetedChains # {} /\ \A c \in TargetedChains : Succeeded(c)) => exit = "ok"

SecondConfigure(c) ==
    /\ ops # <<>>
    /\ ops[Len(ops)] = Op("configure_bridge", c, "ok")
    /\ ops' = Append(ops, Op("configure_bridge", c, "ok"))

(***************************************************************************)
(* C13.  Configuring a declared chain a second time in succession leaves   *)
(* the remote bridge state as the first configuration left it: the state   *)
(* after two applications equals the state after one.                      *)
(***************************************************************************)
C13_ConfigureIdempotent ==
    [][\A c \in DeclarableChains : SecondConfigure(c) => remote' = remote]_vars

\* A chain with a valid exchange rate was configured twice in succession.
C13_Witness ==
    /\ Len(ops) >= 2
    /\ ops[1] = ops[2]
    /\ ops[1].op = "configure_bridge"
    /\ ops[1].result = "ok"
    /\ ParsesNonNegative(config.chains[ops[1].chain].exchange_rate)

\* This step is a call of verify_configuration or query_state.
ReadOnlyCall ==
    /\ Len(ops') = Len(ops) + 1
    /\ ops'[Len(ops')].op \in {"verify_configuration", "query_state"}

(***************************************************************************)
(* C14.  A call of verify_configuration or of query_state (any query type) *)
(* leaves the remote bridge state, the loaded configuration and the held   *)
(* client unchanged.                                                       *)
(***************************************************************************)
C14_VerifyQueryReadOnly ==
    [][ReadOnlyCall => (remote' = remote /\ config' = config /\ client' = client)]_vars

\* A verify ran on a chain whose remote mapping is stale, over a held client.
C14_Witness ==
    /\ cli.command.kind = "Verify"
    /\ ops = <<Op("verify_configuration", cli.command.chain, "ok")>>
    /\ remote[cli.command.chain] = "stale"
    /\ client # None

(***************************************************************************)
(* C15.  No step of a run, of any command and including the connection     *)
(* attempt, changes the loaded configuration.                              *)
(***************************************************************************)
C15_ConfigReadOnly == [][config' = config]_vars

\* A run connected to an overriding endpoint, ran its operation and finished.
C15_Witness ==
    /\ pc = "done"
    /\ cli.endpoint = Some("ws://override")
    /\ connects = <<"ws://override">>
    /\ ops # <<>>

\* The sub-results a query of kind all is to return.
AllSubResults == {"TokenMapping", "Relayers", "Parameters"}

(***************************************************************************)
(* C16 (fails on the code).  A query_state call of a query command with    *)
(* query type all succeeds with a result that holds all three sub-results: *)
(* TokenMapping, Relayers and Parameters.                                  *)
(***************************************************************************)
C16_QueryAllHasThreeSubResults ==
    (cli.command.kind = "Query" /\ cli.command.query_type = "all") =>
        \A i \in DOMAIN ops :
            ops[i].op = "query_state" =>
                ops[i].result = "ok" /\ ops[i].data = AllSubResults

C18_OperationsOnlyAfterConnect ==
    /\ Len(connects) <= 1
    /\ (\/ ops # <<>>
        \/ started # <<>>
        \/ pc \in {"operate", "seq_loop", "par_loop", "finish", "done"}) =>
          connects # <<>> /\ client = Some(connects[1])
    /\ client # None => connects # <<>> /\ client = Some(connects[1])
    /\ exit = "ConnectFailed" =>
          pc = "failed" /\ client = None /\ ops = <<>> /\ started = <<>>
    /\ (connects # <<>> /\ client = None) => pc = "failed" /\ exit = "ConnectFailed"

\* The one connect call of a run failed: no client, no operation, failure.
C18_Witness ==
    /\ Len(connects) = 1
    /\ client = None
    /\ ops = <<>>
    /\ pc = "failed"
    /\ exit = "ConnectFailed"

(***************************************************************************)
(* C19.  A query command that passed the chain lookup and holds a          *)
(* connection never fails, whatever its query type string: query_state     *)
(* returns success and the run ends with exit code 0.                      *)
(***************************************************************************)
C19_QueryNeverFailsOnType ==
    (cli.command.kind = "Query" /\ client # None) =>
        /\ pc # "failed"
        /\ exit \in {"none", "ok"}
        /\ \A i \in DOMAIN ops : ops[i].op = "query_state" /\ ops[i].result = "ok"
        /\ pc \in {"finish", "done"} => Len(ops) = 1
        /\ Terminal => exit = "ok"

\* A query with a query type outside the four named ones ended with exit code 0.
C19_Witness ==
    /\ cli.command.kind = "Query"
    /\ cli.command.query_type \notin {"token-mapping", "relayers", "parameters", "all"}
    /\ pc = "done"
    /\ exit = "ok"
    /\ Len(ops) = 1
    /\ ops[1].result = "ok"

====
